---- MODULE Spec2Model ----
(***************************************************************************)
(* A model of the metassr-bench harness: compare.py (the comparison        *)
(* driver, its readiness gate, metric extraction, lifecycle helpers and   *)
(* head-to-head report) and the matching helpers of benchmark.py.          *)
(*                                                                         *)
(* Text is a sequence of lexemes: one-character strings, plus the five     *)
(* literal anchors of the wrk patterns, each a lexeme of its own.  Numbers *)
(* that Python holds as floats are rationals n/d in lowest terms; err marks *)
(* the ValueError that float() raises.                                     *)
(***************************************************************************)
EXTENDS Integers, Sequences, FiniteSets, TLC

VARIABLES
    \* ---- metric extraction (parse_wrk, parse_latency_ms)
    text,        \* the load generator's output handed to parse_wrk
    parsed,      \* what parse_wrk did with it
    fields,      \* the values the report's lines were assembled from
    lat_mag,     \* magnitude part of the latency string
    lat_unit,    \* unit part of the latency string
    lat_out,     \* what parse_latency_ms did with lat_mag \o lat_unit
    \* ---- readiness gate (wait_for, wait_for_server)
    gate_T,      \* the timeout argument
    gate_pc,     \* "loop", "probe", "sleep" or "ret"
    gate_i,      \* probes issued so far
    gate_flight, \* probes in flight
    gate_fails,  \* probes that failed or raised
    gate_ret,    \* <<>> while running, then <<TRUE>> or <<FALSE>>
    gate_raised, \* the gate itself raised
    \* ---- the machine the harness runs on
    cstate,      \* container name -> "absent", "created" (not running), "running"
    cmine,       \* container name -> the container was created by this run
    pstate,      \* spawned child processes, in spawn order: "running", "exited"
    pkey,        \* the framework each child process serves
    term_sent,   \* per child process: calls of proc.terminate()
    kill_sent,   \* per child process: calls of proc.kill()
    ext,         \* framework -> a server not started by this run answers on its port
    \* ---- stop called directly (docker_stop, the local stop of main)
    last_op,     \* the last lifecycle operation and its handle
    prev_op,     \* the one before, when it was a docker_start
    stop_raised, \* a stop raised
    \* ---- compare.py main
    frameworks,  \* args.frameworks
    docker,      \* args.docker
    skip_build,  \* args.skip_build
    pc,          \* where main is
    idx,         \* position of fw_key in args.frameworks
    all_results, \* framework -> its list of scenario results
    containers,  \* the list of container handles
    processes,   \* the list of process handles
    results,     \* the list run_scenarios is building
    warm,        \* warm-up requests issued for the current target
    cleanup_i,   \* position of the cleanup loops
    exc,         \* the exception propagating out of the try block, or "none"
    exit_code,   \* <<>> while running, then <<status>>
    report,      \* the head-to-head rows of generate_report
    attempted,   \* positions whose loop body began
    failed,      \* position -> "build", "start" or "ready" for a skipped target
    ready,       \* positions whose readiness gate returned true
    wrote,       \* positions that stored their results
    invoked,     \* position -> scenario names wrk was invoked with, in order
    cleanup_failed, \* the stops of the finally block that failed or raised
    waits,       \* the calls of proc.wait(timeout=5) and how long each took
    found_running \* positions whose server answered the first 2-second check

parse_vars == <<text, parsed, fields, lat_mag, lat_unit, lat_out>>
gate_vars == <<gate_T, gate_pc, gate_i, gate_flight, gate_fails, gate_ret, gate_raised>>
env_vars == <<cstate, cmine, pstate, pkey, term_sent, kill_sent, ext>>
stop_vars == <<last_op, prev_op, stop_raised>>
main_vars == <<frameworks, docker, skip_build, pc, idx, all_results, containers,
               processes, results, warm, cleanup_i, exc, exit_code, report,
               attempted, failed, ready, wrote, invoked,
               cleanup_failed, waits, found_running>>
vars == <<parse_vars, gate_vars, env_vars, stop_vars, main_vars>>

(***************************************************************************)
(* Bounds of the model.                                                    *)
(***************************************************************************)
MaxMagLen == 3
MaxUnitLen == 2
MaxTimeout == 4
MaxProcs == 1
MaxStops == 2
MaxGaps == 1

(***************************************************************************)
(* Character classes of Python's re: \d, \w, \s, and str.lower.           *)
(***************************************************************************)
DigitSeq == <<"0", "1", "2", "3", "4", "5", "6", "7", "8", "9">>
UpperSeq == <<"A", "B", "C", "D", "E", "F", "G", "H", "I", "J", "K", "L", "M",
              "N", "O", "P", "Q", "R", "S", "T", "U", "V", "W", "X", "Y", "Z">>
LowerSeq == <<"a", "b", "c", "d", "e", "f", "g", "h", "i", "j", "k", "l", "m",
              "n", "o", "p", "q", "r", "s", "t", "u", "v", "w", "x", "y", "z">>

Range(s) == {s[i] : i \in 1..Len(s)}
Digit == Range(DigitSeq)
DigitDot == Digit \cup {"."}
WordChar == Digit \cup Range(UpperSeq) \cup Range(LowerSeq) \cup {"_"}
Space == {" ", "\t", "\n"}

lower(c) ==
    IF c \in Range(UpperSeq)
    THEN LowerSeq[CHOOSE i \in 1..Len(UpperSeq) : UpperSeq[i] = c]
    ELSE c

lowerSeq(s) == [i \in 1..Len(s) |-> lower(s[i])]

DigitVal(c) == (CHOOSE i \in 1..Len(DigitSeq) : DigitSeq[i] = c) - 1

RECURSIVE Pow10(_)
Pow10(k) == IF k = 0 THEN 1 ELSE 10 * Pow10(k - 1)

\* The value of a run of digits (int() of a \d+ group).
RECURSIVE int(_)
int(s) == IF s = <<>> THEN 0
          ELSE 10 * int(SubSeq(s, 1, Len(s) - 1)) + DigitVal(s[Len(s)])

\* The end (exclusive) of the longest run of lexemes of S starting at i.
RECURSIVE SpanEnd(_, _, _)
SpanEnd(t, i, S) ==
    IF i <= Len(t) /\ t[i] \in S THEN SpanEnd(t, i + 1, S) ELSE i

Min(S) == CHOOSE x \in S : \A y \in S : x <= y
Max(S) == CHOOSE x \in S : \A y \in S : x >= y

(***************************************************************************)
(* Rationals.                                                              *)
(***************************************************************************)
RECURSIVE GCD(_, _)
GCD(a, b) == IF b = 0 THEN a ELSE GCD(b, a % b)
Abs(n) == IF n < 0 THEN -n ELSE n

\* n/d in lowest terms, d > 0
Rat(n, d) ==
    LET g == GCD(Abs(n), d)
    IN  [err |-> FALSE, n |-> n \div g, d |-> d \div g]
Zero == Rat(0, 1)
ValueError == [err |-> TRUE, n |-> 0, d |-> 1]
RatEq(x, y) == x.n * y.d = y.n * x.d

\* float() of a [\d.]+ group: at most one point and at least one digit,
\* otherwise ValueError.
float(s) ==
    LET dots == {i \in 1..Len(s) : s[i] = "."}
        digits == SelectSeq(s, LAMBDA c : c \in Digit)
    IN  IF Cardinality(dots) > 1 \/ digits = <<>>
        THEN ValueError
        ELSE IF dots = {} THEN Rat(int(digits), 1)
        ELSE Rat(int(digits), Pow10(Len(s) - Min(dots)))

(***************************************************************************)
(* ([\d.]+)(\w+) matched at position j of t: the greedy first group gives  *)
(* back characters until a word character follows it.  split is where the  *)
(* second group starts, end is where it ends (exclusive).                  *)
(***************************************************************************)
NoMatch == [ok |-> FALSE, split |-> 0, end |-> 0]

MatchNumUnit(t, j) ==
    LET k == SpanEnd(t, j, DigitDot)
        cands == {m \in (j + 1)..k : m <= Len(t) /\ t[m] \in WordChar}
    IN  IF cands = {} THEN NoMatch
        ELSE LET m == Max(cands)
             IN  [ok |-> TRUE, split |-> m, end |-> SpanEnd(t, m, WordChar)]

\* parse_latency_ms with the factors of "us" and "s" exchanged
parse_latency_ms_swapped(s) ==
    IF s = <<>> THEN Zero
    ELSE LET m == MatchNumUnit(s, 1)
         IN  IF ~m.ok THEN Zero
             ELSE LET v == float(SubSeq(s, 1, m.split - 1))
                      u == lowerSeq(SubSeq(s, m.split, m.end - 1))
                  IN  IF v.err THEN ValueError
                      ELSE IF u = <<"u", "s">> THEN Rat(v.n * 1000, v.d)
                      ELSE IF u = <<"m", "s">> THEN v
                      ELSE IF u = <<"s">> THEN Rat(v.n, v.d * 1000)
                      ELSE v

parse_latency_ms(s) ==
    IF s = <<>> THEN Zero
    ELSE LET m == MatchNumUnit(s, 1)
         IN  IF ~m.ok THEN Zero
             ELSE LET v == float(SubSeq(s, 1, m.split - 1))
                      u == lowerSeq(SubSeq(s, m.split, m.end - 1))
                  IN  IF v.err THEN ValueError
                      ELSE IF u = <<"u", "s">> THEN Rat(v.n, v.d * 1000)
                      ELSE IF u = <<"m", "s">> THEN v
                      ELSE IF u = <<"s">> THEN Rat(v.n * 1000, v.d)
                      ELSE v

(***************************************************************************)
(* re.search: the match at the leftmost position where M matches.          *)
(***************************************************************************)
Search(t, M(_, _)) ==
    LET at == {i \in 1..Len(t) : M(t, i).ok}
    IN  IF at = {} THEN [ok |-> FALSE, from |-> 0, to |-> 0] ELSE M(t, Min(at))

\* Requests/sec:\s+([\d.]+)
MatchRps(t, i) ==
    LET j == SpanEnd(t, i + 1, Space)
        k == SpanEnd(t, j, DigitDot)
    IN  [ok |-> t[i] = "Requests/sec:" /\ j > i + 1 /\ k > j, from |-> j, to |-> k]

\* <anchor>\s+([\d.]+\w+)
MatchLabel(t, i, anchor) ==
    LET j == SpanEnd(t, i + 1, Space)
        m == MatchNumUnit(t, j)
    IN  [ok |-> t[i] = anchor /\ j > i + 1 /\ m.ok, from |-> j, to |-> m.end]

MatchLatency(t, i) == MatchLabel(t, i, "Latency")
MatchP99(t, i) == MatchLabel(t, i, "99%")

\* (\d+)\s+requests in
MatchRequests(t, i) ==
    LET k == SpanEnd(t, i, Digit)
        j == SpanEnd(t, k, Space)
    IN  [ok |-> k > i /\ j > k /\ j <= Len(t) /\ t[j] = "requests in",
         from |-> i, to |-> k]

\* Socket errors:.*?(\d+)   (the point does not match a newline)
MatchErrors(t, i) ==
    LET stop == SpanEnd(t, i + 1, Range(t) \ (Digit \cup {"\n"}))
    IN  [ok |-> t[i] = "Socket errors:" /\ stop <= Len(t) /\ t[stop] \in Digit,
         from |-> stop, to |-> SpanEnd(t, stop, Digit)]

Group(t, m) == SubSeq(t, m.from, m.to - 1)

ZeroMs == <<"0", "m", "s">>

parse_wrk(output) ==
    LET mr == Search(output, MatchRps)
        ml == Search(output, MatchLatency)
        mp == Search(output, MatchP99)
        mq == Search(output, MatchRequests)
        me == Search(output, MatchErrors)
        rps == IF mr.ok THEN float(Group(output, mr)) ELSE Zero
        lat == IF ml.ok THEN parse_latency_ms(Group(output, ml)) ELSE Zero
        p99 == IF mp.ok THEN parse_latency_ms(Group(output, mp)) ELSE Zero
    IN  [raised |-> rps.err \/ lat.err \/ p99.err,
         rps |-> rps,
         latency |-> IF ml.ok THEN Group(output, ml) ELSE ZeroMs,
         latency_ms |-> lat,
         p99 |-> IF mp.ok THEN Group(output, mp) ELSE ZeroMs,
         p99_ms |-> p99,
         requests |-> IF mq.ok THEN int(Group(output, mq)) ELSE 0,
         errors |-> IF me.ok THEN int(Group(output, me)) ELSE 0]

(***************************************************************************)
(* Inputs of the metric extractor: a wrk report assembled from its lines,  *)
(* each line present with one of a few values or absent (<<>>).            *)
(***************************************************************************)
SeqsUpTo(S, n) == UNION {[1..k -> S] : k \in 0..n}

LatencyValues == {<<>>, <<"2", "5", "0", "u", "s">>, <<"1", ".", "5", "s">>,
                  <<"1", "2", "m", "s">>, <<"1", ".", "2", ".", "3", "m", "s">>}
P99Values == {<<>>, <<"5", "m", "s">>, <<"8", "m", "s">>, <<".", "5">>}
RequestsValues == {<<>>, <<"1", "0", "0">>}
ErrorsValues == {<<>>, <<"3">>}
RpsValues == {<<>>, <<"1", "0", "0", "0">>, <<"8", "0", "0", ".", "5">>,
              <<"1", ".", "2", ".", "3">>}

LatencyLine(v) ==
    IF v = <<>> THEN <<>>
    ELSE <<" ", "Latency", " ", " ">> \o v \o <<" ", "0", ".", "8", "9", "m", "s", "\n">>
DistributionLine == <<" ", "Latency", " ", "D", "i", "s", "t", "r", "\n">>
P99Line(v) ==
    IF v = <<>> THEN <<>> ELSE <<" ", "99%", " ", " ">> \o v \o <<"\n">>
RequestsLine(v) ==
    IF v = <<>> THEN <<>>
    ELSE <<" ">> \o v \o <<" ", "requests in", " ", "5", ".", "0", "0", "s", "\n">>
ErrorsLine(v) ==
    IF v = <<>> THEN <<>>
    ELSE <<" ", "Socket errors:", " ", "c", "o", "n", "n", "e", "c", "t", " ">>
         \o v \o <<",", " ", "r", "e", "a", "d", " ", "5", "\n">>
RpsLine(v) ==
    IF v = <<>> THEN <<>> ELSE <<"Requests/sec:", " ", " ">> \o v \o <<"\n">>

WrkReport(lat, p99, req, errs, rps) ==
    LatencyLine(lat) \o DistributionLine \o P99Line(p99) \o RequestsLine(req)
    \o ErrorsLine(errs) \o RpsLine(rps)

MagAlphabet == {"0", "1", "2", "5", "."}
UnitAlphabet == {"u", "m", "s", "S"}

(***************************************************************************)
(* The metric extractor applied to one report, and parse_latency_ms        *)
(* applied to one latency string.                                          *)
(***************************************************************************)
ParseWrk ==
    /\ parsed = <<>>
    /\ parsed' = <<parse_wrk(text)>>
    /\ UNCHANGED <<text, fields, lat_mag, lat_unit, lat_out>>

ParseLatency ==
    /\ lat_out = <<>>
    /\ lat_out' = <<parse_latency_ms(lat_mag \o lat_unit)>>
    /\ UNCHANGED <<text, fields, parsed, lat_mag, lat_unit>>

(***************************************************************************)
(* The readiness gate, one probe at a time.  compare.py calls it with      *)
(* timeout 2 and 60, benchmark.py with its default of 30.                  *)
(***************************************************************************)
AlreadyRunningTimeout == 2
ReadyTimeout == 60
ServerTimeout == 30

\* a loop that runs once more than range(timeout)
GateMoreInclusive(i, T) == i <= T

\* for _ in range(timeout)
GateMore(i, T) == i < T

\* subprocess.run(["curl", ...]) is started
GateIssue ==
    /\ gate_pc = "loop" /\ GateMore(gate_i, gate_T)
    /\ gate_i' = gate_i + 1
    /\ gate_flight' = gate_flight + 1
    /\ gate_pc' = "probe"
    /\ UNCHANGED <<gate_T, gate_fails, gate_ret, gate_raised>>

\* the probe ends: returncode 0, another returncode, or an exception
GateProbeEnd(outcome) ==
    /\ gate_pc = "probe"
    /\ gate_flight' = gate_flight - 1
    /\ IF outcome = "zero"
       THEN /\ gate_ret' = <<TRUE>>
            /\ gate_pc' = "ret"
            /\ UNCHANGED gate_fails
       ELSE \* r.returncode != 0 falls through; except: pass swallows a raise
            /\ gate_fails' = gate_fails + 1
            /\ gate_pc' = "sleep"
            /\ UNCHANGED gate_ret
    /\ UNCHANGED <<gate_T, gate_i, gate_raised>>

\* time.sleep(1)
GateSleep ==
    /\ gate_pc = "sleep"
    /\ gate_pc' = "loop"
    /\ UNCHANGED <<gate_T, gate_i, gate_flight, gate_fails, gate_ret, gate_raised>>

\* the loop is exhausted: return False
GateExhausted ==
    /\ gate_pc = "loop" /\ ~GateMore(gate_i, gate_T)
    /\ gate_ret' = <<FALSE>>
    /\ gate_pc' = "ret"
    /\ UNCHANGED <<gate_T, gate_i, gate_flight, gate_fails, gate_raised>>

(***************************************************************************)
(* Static configuration of compare.py.                                     *)
(***************************************************************************)
SCENARIOS ==
    << [name |-> "Light", threads |-> 1, connections |-> 10, duration |-> 5],
       [name |-> "Medium", threads |-> 4, connections |-> 50, duration |-> 5],
       [name |-> "Heavy", threads |-> 8, connections |-> 200, duration |-> 5],
       [name |-> "Stress", threads |-> 12, connections |-> 500, duration |-> 5] >>

FRAMEWORKS ==
    [metassr |-> [name |-> "MetaSSR", port |-> 8080, docker_image |-> "metassr-bench"],
     nextjs |-> [name |-> "Next.js", port |-> 3001, docker_image |-> "nextjs-bench"]]

Keys == DOMAIN FRAMEWORKS

None == "None"

\* container = fw["docker_image"] + "-run"
ContainerOf(key) == FRAMEWORKS[key].docker_image \o "-run"
ContainerNames == {ContainerOf(key) : key \in Keys}

(***************************************************************************)
(* The container runtime and the child processes, as the harness sees      *)
(* them.                                                                   *)
(***************************************************************************)
\* docker rm -f <name>: the container is gone, whether or not it existed
docker_rm(cs, name) == [cs EXCEPT ![name] = "absent"]

\* docker run -d --name <name>: what it leaves behind.  A run can fail
\* before the container is created ("fail_none") or after it, when the
\* start fails ("fail_created"); a started container can exit at once.
RunOutcomes == {"running", "exited", "fail_created", "fail_none"}
docker_run(cs, name, outcome) ==
    IF cs[name] # "absent" \/ outcome = "fail_none" THEN cs
    ELSE [cs EXCEPT ![name] = IF outcome = "running" THEN "running" ELSE "created"]

\* r.returncode != 0: return None, else return container
RunHandle(cs, name, outcome) ==
    IF cs[name] = "absent" /\ outcome \in {"running", "exited"} THEN name ELSE None

\* docker_start without its "docker rm -f"
docker_start_no_rm(cs, key, outcome) ==
    LET name == ContainerOf(key)
    IN  [cs |-> docker_run(cs, name, outcome),
         h |-> RunHandle(cs, name, outcome)]

\* docker_start(fw): pre-cleanup, then run
docker_start(cs, key, outcome) ==
    LET name == ContainerOf(key)
        cleared == docker_rm(cs, name)
    IN  [cs |-> docker_run(cleared, name, outcome),
         h |-> RunHandle(cleared, name, outcome)]

\* docker_stop without its "if container:", None reaching subprocess.run
docker_stop_unguarded(cs, h) ==
    IF h # None THEN [raised |-> FALSE, cs |-> docker_rm(cs, h)]
    ELSE [raised |-> TRUE, cs |-> cs]

\* docker_stop(container): if container: docker rm -f container
docker_stop(cs, h) ==
    IF h # None THEN [raised |-> FALSE, cs |-> docker_rm(cs, h)]
    ELSE [raised |-> FALSE, cs |-> cs]

\* proc.terminate(); proc.wait(timeout=5); on TimeoutExpired proc.kill().
\* graceful: the process exits within the grace period once signalled.
GraceSeconds == 5
WaitTimesOut(ps, p, graceful) == ps[p] = "running" /\ ~graceful
AfterWait(ps, p, graceful) ==
    IF ps[p] = "running" /\ graceful THEN [ps EXCEPT ![p] = "exited"] ELSE ps
Kill(ps, p) == [ps EXCEPT ![p] = "exited"]

local_stop(ps, ts, ks, p, graceful) ==
    IF WaitTimesOut(ps, p, graceful)
    THEN [ps |-> Kill(ps, p), ts |-> [ts EXCEPT ![p] = @ + 1],
          ks |-> [ks EXCEPT ![p] = @ + 1]]
    ELSE [ps |-> AfterWait(ps, p, graceful), ts |-> [ts EXCEPT ![p] = @ + 1],
          ks |-> ks]

(***************************************************************************)
(* Start and stop called directly, in any order, on any handle.            *)
(***************************************************************************)
Op(op, key, h) == [op |-> op, key |-> key, h |-> h]
NoOp == Op("none", None, None)
\* the operation before the last is kept when it was a start
Remembered(op) == IF op.op = "docker_start" THEN op ELSE NoOp

StartContainer(key, outcome) ==
    LET r == docker_start(cstate, key, outcome)
    IN  /\ cstate' = r.cs
        /\ cmine' = [cmine EXCEPT ![ContainerOf(key)] = r.cs[ContainerOf(key)] # "absent"]
        /\ last_op' = Op("docker_start", key, r.h)
        /\ prev_op' = Remembered(last_op)
        /\ UNCHANGED <<pstate, pkey, term_sent, kill_sent, ext, stop_raised>>

StopContainer(key, h) ==
    LET r == docker_stop(cstate, h)
    IN  /\ h \in {ContainerOf(key), None}
        /\ cstate' = r.cs
        /\ stop_raised' = (stop_raised \/ r.raised)
        /\ last_op' = Op("docker_stop", key, h)
        /\ prev_op' = Remembered(last_op)
        /\ UNCHANGED <<cmine, pstate, pkey, term_sent, kill_sent, ext>>

\* local_start: Popen returns a handle; the server may have died already
StartProcess(key, alive) ==
    /\ Len(pstate) < MaxProcs
    /\ pstate' = Append(pstate, IF alive THEN "running" ELSE "exited")
    /\ pkey' = Append(pkey, key)
    /\ term_sent' = Append(term_sent, 0)
    /\ kill_sent' = Append(kill_sent, 0)
    /\ last_op' = Op("local_start", key, Len(pstate) + 1)
    /\ prev_op' = Remembered(last_op)
    /\ UNCHANGED <<cstate, cmine, ext, stop_raised>>

StopProcess(p, graceful) ==
    LET r == local_stop(pstate, term_sent, kill_sent, p, graceful)
    IN  /\ p \in 1..Len(pstate)
        /\ term_sent[p] < MaxStops
        /\ pstate' = r.ps /\ term_sent' = r.ts /\ kill_sent' = r.ks
        /\ last_op' = Op("local_stop", pkey[p], p)
        /\ prev_op' = Remembered(last_op)
        /\ UNCHANGED <<cstate, cmine, pkey, ext, stop_raised>>

\* a running target exits on its own
TargetExits ==
    /\ \/ \E p \in 1..Len(pstate) :
             /\ pstate[p] = "running"
             /\ pstate' = [pstate EXCEPT ![p] = "exited"]
             /\ last_op' = Op("exit", None, None)
             /\ UNCHANGED cstate
       \/ \E key \in Keys :
             /\ cstate[ContainerOf(key)] = "running"
             /\ cstate' = [cstate EXCEPT ![ContainerOf(key)] = "created"]
             /\ last_op' = Op("exit", None, None)
             /\ UNCHANGED pstate
    /\ prev_op' = Remembered(last_op)
    /\ UNCHANGED <<cmine, pkey, term_sent, kill_sent, ext, stop_raised>>

(***************************************************************************)
(* run_scenarios' result record and the head-to-head table of              *)
(* generate_report.                                                        *)
(***************************************************************************)
\* {"name": name, "threads": threads, "connections": conns, "duration": dur, **m}
Result(i, m) ==
    [name |-> SCENARIOS[i].name, threads |-> SCENARIOS[i].threads,
     connections |-> SCENARIOS[i].connections, duration |-> SCENARIOS[i].duration,
     rps |-> m.rps, latency |-> m.latency, latency_ms |-> m.latency_ms,
     p99 |-> m.p99, p99_ms |-> m.p99_ms, requests |-> m.requests,
     errors |-> m.errors]

\* a comparison that gives ties to the second operand
RatGt(x, y) == x.n * y.d > y.n * x.d

\* m["rps"] >= o["rps"]
RatGeq(x, y) == x.n * y.d >= y.n * x.d

\* str() of a natural number
RECURSIVE Str(_)
Str(n) == IF n < 10 THEN <<DigitSeq[n + 1]>>
          ELSE Str(n \div 10) \o <<DigitSeq[(n % 10) + 1]>>

\* the nearest integer to x, a tie going to the even one
RoundHalfEven(x) ==
    LET fl == x.n \div x.d
        rem == x.n % x.d
    IN  IF 2 * rem > x.d \/ (2 * rem = x.d /\ fl % 2 = 1) THEN fl + 1 ELSE fl

\* f"{d:.1f}": one decimal, the sign of d kept
Fixed1(d) ==
    LET tenths == Abs(RoundHalfEven(Rat(d.n * 10, d.d)))
    IN  (IF d.n < 0 THEN <<"-">> ELSE <<>>)
        \o Str(tenths \div 10) \o <<".">> \o Str(tenths % 10)

\* f"{'+' if d >= 0 else ''}{d:.1f}%"
DiffCell(d) == (IF d.n >= 0 THEN <<"+">> ELSE <<>>) \o Fixed1(d) \o <<"%">>

\* the difference taken relative to a instead of b
pct_diff_of_reference(a, b) ==
    IF a.n = 0 THEN Zero
    ELSE Rat((a.n * b.d - b.n * a.d) * 100, b.d * a.n)

\* if b == 0: return 0;  return ((a - b) / b) * 100
pct_diff(a, b) ==
    IF b.n = 0 THEN Zero
    ELSE Rat((a.n * b.d - b.n * a.d) * 100, a.d * b.n)

HeadToHeadRow(fw_key, i, m, o) ==
    [scenario |-> SCENARIOS[i].name,
     rps_d |-> pct_diff(m.rps, o.rps),
     lat_d |-> pct_diff(m.latency_ms, o.latency_ms),
     p99_d |-> pct_diff(m.p99_ms, o.p99_ms),
     rps_cell |-> DiffCell(pct_diff(m.rps, o.rps)),
     lat_cell |-> DiffCell(pct_diff(m.latency_ms, o.latency_ms)),
     p99_cell |-> DiffCell(pct_diff(m.p99_ms, o.p99_ms)),
     winner |-> IF RatGeq(m.rps, o.rps) THEN "MetaSSR" ELSE FRAMEWORKS[fw_key].name]

\* one section per framework other than metassr, one row per scenario
HeadToHead(res) ==
    IF "metassr" \in DOMAIN res /\ Cardinality(DOMAIN res) > 1
    THEN [fw_key \in DOMAIN res \ {"metassr"} |->
             [i \in 1..Len(SCENARIOS) |->
                 HeadToHeadRow(fw_key, i, res["metassr"][i], res[fw_key][i])]]
    ELSE <<>>

(***************************************************************************)
(* compare.py main: the loop over args.frameworks inside try, the finally  *)
(* block, the empty-result check and the report.                           *)
(***************************************************************************)
WarmupRequests == 10
\* benchmark.py: for _ in range(5)
ServerWarmupRequests == 5

fw_key == frameworks[idx]

\* something answers on the framework's port
Up(key) ==
    \/ ext[key]
    \/ cstate[ContainerOf(key)] = "running"
    \/ \E p \in 1..Len(pstate) : pkey[p] = key /\ pstate[p] = "running"

\* what wait_for(url, timeout) can return: true needs a probe that succeeds
\* within the timeout, false is what is left when the server is slow or down
WaitResults(key, T) == IF Up(key) /\ T > 0 THEN {TRUE, FALSE} ELSE {FALSE}

\* the reports wrk hands back in a run of the driver
GoodReport ==
    WrkReport(<<"2", "5", "0", "u", "s">>, <<"5", "m", "s">>, <<"1", "0", "0">>,
              <<"3">>, <<"1", "0", "0", "0">>)
EmptyReport == WrkReport(<<>>, <<>>, <<>>, <<>>, <<>>)
MalformedReport ==
    WrkReport(<<"2", "5", "0", "u", "s">>, <<"5", "m", "s">>, <<"1", "0", "0">>,
              <<"3">>, <<"1", ".", "2", ".", "3">>)
WrkOutputs == {GoodReport, EmptyReport, MalformedReport}
\* m = parse_wrk(r.stdout + r.stderr), for each of them
WrkMetrics == [output \in WrkOutputs |-> parse_wrk(output)]

main_hist == <<attempted, failed, ready, wrote, invoked, cleanup_failed, waits,
               found_running>>
main_args == <<frameworks, docker, skip_build>>

\* continue: the next fw_key
Skip(reason) ==
    /\ failed' = [failed EXCEPT ![idx] = reason]
    /\ idx' = idx + 1
    /\ pc' = "loop"

\* an exception leaves the try block: the finally block runs next
Raise(e) ==
    /\ exc' = e
    /\ pc' = "cleanup"
    /\ cleanup_i' = 1

\* for fw_key in args.frameworks
LoopNext ==
    /\ pc = "loop"
    /\ IF idx <= Len(frameworks)
       THEN /\ attempted' = attempted \cup {idx}
            /\ pc' = IF docker THEN "docker_build" ELSE "check_running"
            /\ UNCHANGED cleanup_i
       ELSE /\ pc' = "cleanup"
            /\ cleanup_i' = 1
            /\ UNCHANGED attempted
    /\ UNCHANGED <<main_args, cleanup_failed, waits, found_running, idx, all_results, containers, processes, results,
                   warm, exc, exit_code, report, failed, ready, wrote, invoked,
                   env_vars>>

\* if not docker_build(fw_key): continue
DockerBuild(ok) ==
    /\ pc = "docker_build"
    /\ IF ok THEN pc' = "docker_rm" /\ UNCHANGED <<idx, failed>>
       ELSE Skip("build")
    /\ UNCHANGED <<main_args, cleanup_failed, waits, found_running, all_results, containers, processes, results, warm,
                   cleanup_i, exc, exit_code, report, attempted, ready, wrote,
                   invoked, env_vars>>

\* docker_start: docker rm -f container
DockerStartRm ==
    /\ pc = "docker_rm"
    /\ cstate' = docker_rm(cstate, ContainerOf(fw_key))
    /\ cmine' = [cmine EXCEPT ![ContainerOf(fw_key)] = FALSE]
    /\ pc' = "docker_run"
    /\ UNCHANGED <<main_args, idx, all_results, containers, processes, results,
                   warm, cleanup_i, exc, exit_code, report, main_hist,
                   pstate, pkey, term_sent, kill_sent, ext>>

\* docker_start: docker run -d; if not container: continue;
\* containers.append(container)
DockerStartRun(outcome) ==
    LET name == ContainerOf(fw_key)
        h == RunHandle(cstate, name, outcome)
    IN  /\ pc = "docker_run"
        /\ cstate' = docker_run(cstate, name, outcome)
        /\ cmine' = [cmine EXCEPT ![name] = cstate'[name] # "absent"]
        /\ IF h = None
           THEN Skip("start") /\ UNCHANGED containers
           ELSE /\ containers' = Append(containers, h)
                /\ pc' = "wait"
                /\ UNCHANGED <<idx, failed>>
        /\ UNCHANGED <<main_args, cleanup_failed, waits, found_running, all_results, processes, results, warm,
                       cleanup_i, exc, exit_code, report, attempted, ready,
                       wrote, invoked, pstate, pkey, term_sent, kill_sent, ext>>

\* if wait_for(url, timeout=2): already running
CheckRunning(res) ==
    /\ pc = "check_running"
    /\ res \in WaitResults(fw_key, AlreadyRunningTimeout)
    /\ pc' = IF res THEN "wait" ELSE IF skip_build THEN "local_start" ELSE "local_build"
    /\ found_running' = IF res THEN found_running \cup {idx} ELSE found_running
    /\ UNCHANGED <<main_args, idx, all_results, containers, processes, results,
                   warm, cleanup_i, exc, exit_code, report, attempted, failed,
                   ready, wrote, invoked, cleanup_failed, waits, env_vars>>

\* if not local_build(fw_key): continue.  subprocess.run raises when npm
\* cannot be executed.
LocalBuild(outcome) ==
    /\ pc = "local_build"
    /\ CASE outcome = "ok" -> pc' = "local_start" /\ UNCHANGED <<idx, failed, exc, cleanup_i>>
         [] outcome = "fail" -> Skip("build") /\ UNCHANGED <<exc, cleanup_i>>
         [] outcome = "raise" ->
                /\ Raise("OSError")
                /\ failed' = [failed EXCEPT ![idx] = "build"]
                /\ UNCHANGED idx
    /\ UNCHANGED <<main_args, cleanup_failed, waits, found_running, all_results, containers, processes, results, warm,
                   exit_code, report, attempted, ready, wrote, invoked, env_vars>>

\* proc = local_start(fw_key); processes.append(proc).  Popen raises when
\* npm or the app directory is missing; the child may die right away.
LocalStart(outcome) ==
    /\ pc = "local_start"
    /\ IF outcome = "raise"
       THEN /\ Raise("OSError")
            /\ failed' = [failed EXCEPT ![idx] = "start"]
            /\ UNCHANGED <<processes, pstate, pkey, term_sent, kill_sent>>
       ELSE /\ pstate' = Append(pstate, outcome)
            /\ pkey' = Append(pkey, fw_key)
            /\ term_sent' = Append(term_sent, 0)
            /\ kill_sent' = Append(kill_sent, 0)
            /\ processes' = Append(processes, Len(pstate) + 1)
            /\ pc' = "wait"
            /\ UNCHANGED <<exc, cleanup_i, failed>>
    /\ UNCHANGED <<main_args, cleanup_failed, waits, found_running, idx, all_results, containers, results, warm,
                   exit_code, report, attempted, ready, wrote, invoked,
                   cstate, cmine, ext>>

\* a test of the gate's result that never skips
NeverSkips(res) == FALSE

\* if not wait_for(url, timeout=60)
NotReady(res) == ~res

\* if not wait_for(url, timeout=60): continue
WaitReady(res) ==
    /\ pc = "wait"
    /\ res \in WaitResults(fw_key, ReadyTimeout)
    /\ ready' = IF res THEN ready \cup {idx} ELSE ready
    /\ IF NotReady(res)
       THEN Skip("ready") /\ UNCHANGED warm
       ELSE /\ pc' = "warmup"
            /\ warm' = 0
            /\ UNCHANGED <<idx, failed>>
    /\ UNCHANGED <<main_args, cleanup_failed, waits, found_running, all_results, containers, processes, results,
                   cleanup_i, exc, exit_code, report, attempted, wrote, invoked,
                   env_vars>>

\* for _ in range(10): subprocess.run(["curl", "-s", url])
WarmupRequest ==
    /\ pc = "warmup" /\ warm < WarmupRequests
    /\ warm' = warm + 1
    /\ UNCHANGED <<main_args, pc, idx, all_results, containers, processes,
                   results, cleanup_i, exc, exit_code, report, main_hist,
                   env_vars>>

\* time.sleep(2); run_scenarios starts with results = []
WarmupPause ==
    /\ pc = "warmup" /\ warm = WarmupRequests
    /\ pc' = "bench"
    /\ results' = <<>>
    /\ UNCHANGED <<main_args, idx, all_results, containers, processes, warm,
                   cleanup_i, exc, exit_code, report, main_hist, env_vars>>

\* a loop that stops one scenario short
ScenariosLeftButLast(done) == Len(done) < Len(SCENARIOS) - 1

\* the scenarios still to run: for name, threads, conns, dur in SCENARIOS
ScenariosLeft(done) == Len(done) < Len(SCENARIOS)

\* the results so far that came from a report without metrics
Gaps(list) == Cardinality({i \in 1..Len(list) : list[i].requests = 0})

\* one turn of run_scenarios' loop: wrk, parse_wrk, results.append
RunScenario(output) ==
    LET i == Len(results) + 1
        m == WrkMetrics[output]
    IN  /\ pc = "bench" /\ ScenariosLeft(results)
        /\ output = EmptyReport => Gaps(results) < MaxGaps
        /\ invoked' = [invoked EXCEPT ![idx] = Append(@, SCENARIOS[i].name)]
        /\ IF m.raised
           THEN Raise("ValueError") /\ UNCHANGED results
           ELSE /\ results' = Append(results, Result(i, m))
                /\ UNCHANGED <<pc, exc, cleanup_i>>
        /\ UNCHANGED <<main_args, cleanup_failed, waits, found_running, idx, all_results, containers, processes, warm,
                       exit_code, report, attempted, failed, ready, wrote, env_vars>>

\* all_results[fw_key] = run_scenarios(url)
StoreResults(res, key, list) ==
    [f \in DOMAIN res \cup {key} |-> IF f = key THEN list ELSE res[f]]

RunScenariosReturn ==
    /\ pc = "bench" /\ ~ScenariosLeft(results)
    /\ all_results' = StoreResults(all_results, fw_key, results)
    /\ wrote' = wrote \cup {idx}
    /\ idx' = idx + 1
    /\ pc' = "loop"
    /\ UNCHANGED <<main_args, cleanup_failed, waits, found_running, containers, processes, results, warm, cleanup_i,
                   exc, exit_code, report, attempted, failed, ready, invoked,
                   env_vars>>

\* what "docker rm -f" can do in the finally block: remove the container,
\* exit non-zero leaving it in place (the daemon does not answer), or not
\* run at all, subprocess.run raising OSError
StopOutcomes == {"removed", "failed", "raise"}

\* finally: for container in containers: docker_stop(container).
\* docker_stop ignores the return code and catches nothing, and neither
\* does the finally block: an exception leaves main at once.
CleanupContainer(outcome) ==
    LET h == containers[cleanup_i]
    IN  /\ pc = "cleanup" /\ cleanup_i <= Len(containers)
        /\ cstate' = IF outcome = "removed" THEN docker_stop(cstate, h).cs ELSE cstate
        /\ cleanup_failed' =
               IF outcome = "removed" THEN cleanup_failed
               ELSE Append(cleanup_failed, [h |-> h, how |-> outcome, pending |-> exc])
        /\ IF outcome = "raise"
           THEN /\ exc' = "OSError"
                /\ pc' = "done"
                /\ exit_code' = <<1>>
                /\ UNCHANGED cleanup_i
           ELSE /\ cleanup_i' = cleanup_i + 1
                /\ UNCHANGED <<pc, exc, exit_code>>
        /\ UNCHANGED <<main_args, idx, all_results, containers, processes,
                       results, warm, report, attempted, failed, ready, wrote,
                       invoked, waits, found_running, cmine, pstate, pkey,
                       term_sent, kill_sent, ext>>

\* the process the second cleanup loop is at
CleanupProc == processes[cleanup_i - Len(containers)]

\* finally: for proc in processes: proc.terminate()
CleanupTerminate ==
    /\ pc = "cleanup"
    /\ cleanup_i > Len(containers)
    /\ cleanup_i <= Len(containers) + Len(processes)
    /\ term_sent' = [term_sent EXCEPT ![CleanupProc] = @ + 1]
    /\ pc' = "cleanup_wait"
    /\ UNCHANGED <<main_args, idx, all_results, containers, processes, results,
                   warm, cleanup_i, exc, exit_code, report, main_hist,
                   cstate, cmine, pstate, pkey, kill_sent, ext>>

\* a wait that gives the process one second more
ExitsInSix(delay) == delay < GraceSeconds + 1

\* the signalled process, exiting after delay seconds, is gone before
\* wait(timeout=5) gives up
ExitsInTime(delay) == delay < GraceSeconds

\* the seconds a signalled process can need to exit: none, just less
\* than the grace period, the grace period, more
Delays == {0, GraceSeconds - 1, GraceSeconds, GraceSeconds + 1}

\* the seconds proc.wait(timeout=5) takes
Waited(ps, p, delay) ==
    IF ps[p] # "running" THEN 0
    ELSE IF ExitsInTime(delay) THEN delay ELSE GraceSeconds

\* proc.wait(timeout=5), the process needing delay seconds to exit
CleanupWait(delay) ==
    LET graceful == ExitsInTime(delay)
    IN  /\ pc = "cleanup_wait"
        /\ pstate' = AfterWait(pstate, CleanupProc, graceful)
        /\ waits' = Append(waits, [p |-> CleanupProc,
                                   alive |-> pstate[CleanupProc] = "running",
                                   delay |-> delay,
                                   s |-> Waited(pstate, CleanupProc, delay)])
        /\ IF WaitTimesOut(pstate, CleanupProc, graceful)
           THEN pc' = "cleanup_kill" /\ UNCHANGED cleanup_i
           ELSE pc' = "cleanup" /\ cleanup_i' = cleanup_i + 1
        /\ UNCHANGED <<main_args, idx, all_results, containers, processes,
                       results, warm, exc, exit_code, report, attempted, failed,
                       ready, wrote, invoked, cleanup_failed, found_running,
                       cstate, cmine, pkey, term_sent, kill_sent, ext>>

\* except subprocess.TimeoutExpired: proc.kill()
CleanupKill ==
    /\ pc = "cleanup_kill"
    /\ pstate' = Kill(pstate, CleanupProc)
    /\ kill_sent' = [kill_sent EXCEPT ![CleanupProc] = @ + 1]
    /\ pc' = "cleanup"
    /\ cleanup_i' = cleanup_i + 1
    /\ UNCHANGED <<main_args, idx, all_results, containers, processes, results,
                   warm, exc, exit_code, report, main_hist,
                   cstate, cmine, pkey, term_sent, ext>>

\* after finally: a pending exception ends the run with a traceback;
\* if not all_results: sys.exit(1)
AfterFinally ==
    /\ pc = "cleanup"
    /\ cleanup_i > Len(containers) + Len(processes)
    /\ IF exc # "none" \/ DOMAIN all_results = {}
       THEN pc' = "done" /\ exit_code' = <<1>>
       ELSE pc' = "report" /\ UNCHANGED exit_code
    /\ UNCHANGED <<main_args, idx, all_results, containers, processes, results,
                   warm, cleanup_i, exc, report, main_hist, env_vars>>

\* report = generate_report(all_results, ...); main returns
GenerateReport ==
    /\ pc = "report"
    /\ report' = HeadToHead(all_results)
    /\ pc' = "done"
    /\ exit_code' = <<0>>
    /\ UNCHANGED <<main_args, idx, all_results, containers, processes, results,
                   warm, cleanup_i, exc, main_hist, env_vars>>

(***************************************************************************)
(* Specifications.  Each one runs one part of the program and leaves the   *)
(* variables of the other parts at rest.                                   *)
(***************************************************************************)
ParseIdle ==
    /\ text = <<>> /\ parsed = <<>> /\ fields = <<>>
    /\ lat_mag = <<>> /\ lat_unit = <<>> /\ lat_out = <<>>

GateIdle ==
    /\ gate_T = 0 /\ gate_pc = "idle" /\ gate_i = 0 /\ gate_flight = 0
    /\ gate_fails = 0 /\ gate_ret = <<>> /\ gate_raised = FALSE

EnvIdle ==
    /\ cstate = [c \in ContainerNames |-> "absent"]
    /\ cmine = [c \in ContainerNames |-> FALSE]
    /\ pstate = <<>> /\ pkey = <<>> /\ term_sent = <<>> /\ kill_sent = <<>>
    /\ ext = [key \in Keys |-> FALSE]

StopIdle ==
    /\ last_op = NoOp /\ prev_op = NoOp
    /\ stop_raised = FALSE

MainIdle ==
    /\ frameworks = <<>> /\ docker = FALSE /\ skip_build = FALSE
    /\ pc = "idle" /\ idx = 0 /\ all_results = <<>> /\ containers = <<>>
    /\ processes = <<>> /\ results = <<>> /\ warm = 0 /\ cleanup_i = 0
    /\ exc = "none" /\ exit_code = <<>> /\ report = <<>>
    /\ attempted = {} /\ failed = <<>> /\ ready = {} /\ wrote = {}
    /\ invoked = <<>> /\ cleanup_failed = <<>> /\ waits = <<>>
    /\ found_running = {}

InitParse ==
    /\ fields \in [lat : LatencyValues, p99 : P99Values, req : RequestsValues,
                   errs : ErrorsValues, rps : RpsValues]
    /\ text = WrkReport(fields.lat, fields.p99, fields.req, fields.errs, fields.rps)
    /\ parsed = <<>>
    /\ lat_mag = <<>> /\ lat_unit = <<>> /\ lat_out = <<>>
    /\ GateIdle /\ EnvIdle /\ StopIdle /\ MainIdle

NextParse == ParseWrk /\ UNCHANGED <<gate_vars, env_vars, stop_vars, main_vars>>

SpecParse == InitParse /\ [][NextParse]_vars

InitLatency ==
    /\ lat_mag \in SeqsUpTo(MagAlphabet, MaxMagLen)
    /\ lat_unit \in SeqsUpTo(UnitAlphabet, MaxUnitLen)
    /\ lat_out = <<>>
    /\ text = <<>> /\ parsed = <<>> /\ fields = <<>>
    /\ GateIdle /\ EnvIdle /\ StopIdle /\ MainIdle

NextLatency == ParseLatency /\ UNCHANGED <<gate_vars, env_vars, stop_vars, main_vars>>

SpecLatency == InitLatency /\ [][NextLatency]_vars

InitGate ==
    /\ gate_T \in (0..MaxTimeout) \cup {AlreadyRunningTimeout, ReadyTimeout, ServerTimeout}
    /\ gate_pc = "loop" /\ gate_i = 0 /\ gate_flight = 0
    /\ gate_fails = 0 /\ gate_ret = <<>> /\ gate_raised = FALSE
    /\ ParseIdle /\ EnvIdle /\ StopIdle /\ MainIdle

not_gate == <<parse_vars, env_vars, stop_vars, main_vars>>

NextGate ==
    \/ GateIssue /\ UNCHANGED not_gate
    \/ (\E outcome \in {"zero", "nonzero", "raise"} : GateProbeEnd(outcome))
       /\ UNCHANGED not_gate
    \/ GateSleep /\ UNCHANGED not_gate
    \/ GateExhausted /\ UNCHANGED not_gate

SpecGate == InitGate /\ [][NextGate]_vars

InitStop ==
    /\ cstate \in [ContainerNames -> {"absent", "running"}]
    /\ cmine = [c \in ContainerNames |-> FALSE]
    /\ pstate = <<>> /\ pkey = <<>> /\ term_sent = <<>> /\ kill_sent = <<>>
    /\ ext = [key \in Keys |-> FALSE]
    /\ StopIdle
    /\ ParseIdle /\ GateIdle /\ MainIdle

not_stop == <<parse_vars, gate_vars, main_vars>>

NextStop ==
    \/ (\E key \in Keys, outcome \in RunOutcomes : StartContainer(key, outcome))
       /\ UNCHANGED not_stop
    \/ (\E key \in Keys, h \in ContainerNames \cup {None} : StopContainer(key, h))
       /\ UNCHANGED not_stop
    \/ (\E key \in Keys, alive \in BOOLEAN : StartProcess(key, alive))
       /\ UNCHANGED not_stop
    \/ (\E p \in 1..MaxProcs, graceful \in BOOLEAN : StopProcess(p, graceful))
       /\ UNCHANGED not_stop
    \/ TargetExits /\ UNCHANGED not_stop

SpecStop == InitStop /\ [][NextStop]_vars

\* -f/--frameworks: one or more of the keys of FRAMEWORKS, each named once
FrameworkLists ==
    {l \in SeqsUpTo(Keys, Cardinality(Keys)) :
        l # <<>> /\ \A i, j \in 1..Len(l) : l[i] = l[j] => i = j}

\* positions 1..n, none skipped and nothing invoked yet
NoneYet(n, v) == [i \in 1..n |-> v]

InitMain ==
    /\ frameworks \in FrameworkLists
    /\ docker \in BOOLEAN
    /\ skip_build \in IF docker THEN {FALSE} ELSE BOOLEAN
    /\ cstate \in IF docker THEN [ContainerNames -> {"absent", "running"}]
                  ELSE {[c \in ContainerNames |-> "absent"]}
    /\ cmine = [c \in ContainerNames |-> FALSE]
    /\ pstate = <<>> /\ pkey = <<>> /\ term_sent = <<>> /\ kill_sent = <<>>
    /\ ext \in IF docker THEN {[key \in Keys |-> FALSE]} ELSE [Keys -> BOOLEAN]
    /\ pc = "loop" /\ idx = 1 /\ all_results = <<>> /\ containers = <<>>
    /\ processes = <<>> /\ results = <<>> /\ warm = 0 /\ cleanup_i = 0
    /\ exc = "none" /\ exit_code = <<>> /\ report = <<>>
    /\ attempted = {} /\ ready = {} /\ wrote = {}
    /\ failed = NoneYet(Len(frameworks), "none")
    /\ invoked = NoneYet(Len(frameworks), <<>>)
    /\ cleanup_failed = <<>> /\ waits = <<>> /\ found_running = {}
    /\ ParseIdle /\ GateIdle /\ StopIdle

not_main == <<parse_vars, gate_vars, stop_vars>>

Next ==
    \/ LoopNext /\ UNCHANGED not_main
    \/ (\E ok \in BOOLEAN : DockerBuild(ok)) /\ UNCHANGED not_main
    \/ DockerStartRm /\ UNCHANGED not_main
    \/ (\E outcome \in RunOutcomes : DockerStartRun(outcome)) /\ UNCHANGED not_main
    \/ (\E res \in BOOLEAN : CheckRunning(res)) /\ UNCHANGED not_main
    \/ (\E outcome \in {"ok", "fail", "raise"} : LocalBuild(outcome)) /\ UNCHANGED not_main
    \/ (\E outcome \in {"running", "exited", "raise"} : LocalStart(outcome))
       /\ UNCHANGED not_main
    \/ (\E res \in BOOLEAN : WaitReady(res)) /\ UNCHANGED not_main
    \/ WarmupRequest /\ UNCHANGED not_main
    \/ WarmupPause /\ UNCHANGED not_main
    \/ (\E output \in WrkOutputs : RunScenario(output)) /\ UNCHANGED not_main
    \/ RunScenariosReturn /\ UNCHANGED not_main
    \/ (\E outcome \in StopOutcomes : CleanupContainer(outcome)) /\ UNCHANGED not_main
    \/ CleanupTerminate /\ UNCHANGED not_main
    \/ (\E delay \in Delays : CleanupWait(delay)) /\ UNCHANGED not_main
    \/ CleanupKill /\ UNCHANGED not_main
    \/ AfterFinally /\ UNCHANGED not_main
    \/ GenerateReport /\ UNCHANGED not_main

Spec == InitMain /\ [][Next]_vars

(***************************************************************************)
(* The report, generated from result sets that run_scenarios can produce:  *)
(* the reference and one competitor differ at one scenario, or only one    *)
(* framework has results.                                                  *)
(***************************************************************************)
ReportRps == {<<"0">>, <<"8", "0", "0">>, <<"1", "0", "0", "0">>, <<"0", ".", "5">>}
ReportLat == {<<"0", "u", "s">>, <<"5", "m", "s">>, <<"8", "m", "s">>}

\* parse_wrk of the report with these figures
ReportMetrics ==
    [lat \in ReportLat, p99 \in ReportLat, rps \in ReportRps |->
        parse_wrk(WrkReport(lat, p99, <<"1", "0", "0">>, <<"3">>, rps))]

\* the results of one framework: row at holds the given figures
ResultsWith(at, lat, p99, rps) ==
    [i \in 1..Len(SCENARIOS) |->
        Result(i, IF i = at THEN ReportMetrics[lat, p99, rps]
                  ELSE WrkMetrics[GoodReport])]

ReportInputs ==
    {[metassr |-> ResultsWith(at, ml, mp, mr), nextjs |-> ResultsWith(at, ol, op, or)] :
        at \in 1..Len(SCENARIOS), ml \in ReportLat, mp \in ReportLat, mr \in ReportRps,
        ol \in ReportLat, op \in ReportLat, or \in ReportRps}
    \cup {[key \in {only} |-> ResultsWith(1, <<"5", "m", "s">>, <<"8", "m", "s">>, <<"8", "0", "0">>)] :
             only \in Keys}

InitReport ==
    /\ all_results \in ReportInputs
    /\ frameworks = <<"metassr", "nextjs">>
    /\ docker = FALSE /\ skip_build = FALSE
    /\ pc = "report" /\ idx = 3 /\ containers = <<>> /\ processes = <<>>
    /\ results = <<>> /\ warm = WarmupRequests /\ cleanup_i = 1
    /\ exc = "none" /\ exit_code = <<>> /\ report = <<>>
    /\ attempted = {1, 2} /\ ready = {} /\ wrote = {}
    /\ failed = NoneYet(2, "none") /\ invoked = NoneYet(2, <<>>)
    /\ cleanup_failed = <<>> /\ waits = <<>> /\ found_running = {}
    /\ EnvIdle /\ ParseIdle /\ GateIdle /\ StopIdle

NextReport == GenerateReport /\ UNCHANGED not_main

SpecReport == InitReport /\ [][NextReport]_vars

EveryHandleReleasedOnce ==
    pc = "done" =>
        /\ \A c \in ContainerNames : cmine[c] => cstate[c] = "absent"
        /\ \A p \in 1..Len(pstate) : pstate[p] = "exited" /\ term_sent[p] = 1

\* C2: at every moment at most one target started by the harness is alive.
AliveStarted ==
    {c \in ContainerNames : cmine[c] /\ cstate[c] = "running"}
    \cup {p \in 1..Len(pstate) : pstate[p] = "running"}

OneTargetAtATime == Cardinality(AliveStarted) <= 1

\* C3: a target whose build or start failed, or whose readiness gate timed
\* out, has no scenario run against it and no entry in the result set, and
\* every target after it is still attempted.
FailureIsolated ==
    \A i \in 1..Len(frameworks) :
        failed[i] # "none" =>
            /\ invoked[i] = <<>>
            /\ frameworks[i] \notin DOMAIN all_results
            /\ pc = "done" => \A j \in i..Len(frameworks) : j \in attempted

\* C4: every key of the result set maps to exactly len(SCENARIOS) results,
\* in the order of SCENARIOS.
ResultSetComplete ==
    \A key \in DOMAIN all_results :
        /\ Len(all_results[key]) = Len(SCENARIOS)
        /\ \A i \in 1..Len(SCENARIOS) : all_results[key][i].name = SCENARIOS[i].name

ResultSetCompleteWitness ==
    /\ pc = "done" /\ exc = "ValueError"
    /\ Len(results) = 2
    /\ DOMAIN all_results = {"metassr"}
    /\ frameworks = <<"metassr", "nextjs">>

\* C5: once every configured target has been attempted and the run has
\* ended, the exit status is non-zero exactly when the result set is empty,
\* and a non-empty result set has been reported.
ExitCodeContract ==
    (pc = "done" /\ attempted = 1..Len(frameworks)) =>
        /\ exit_code = <<1>> <=> DOMAIN all_results = {}
        /\ DOMAIN all_results # {} => exit_code = <<0>>

\* C10: every head-to-head row holds, for rps, average latency and p99
\* latency, 0 when the competitor's value b is 0 and (a - b) / b * 100
\* otherwise, a being the reference's value at that scenario; there is one
\* section per competitor and one row per scenario.
PctIs(d, a, b) ==
    IF b.n = 0 THEN d.n = 0
    ELSE d.d # 0 /\ d.n * b.n * a.d = (a.n * b.d - b.n * a.d) * 100 * d.d

PctDiffInReport ==
    (pc = "done" /\ exit_code = <<0>>) =>
        /\ DOMAIN report =
               IF "metassr" \in DOMAIN all_results
               THEN DOMAIN all_results \ {"metassr"} ELSE {}
        /\ \A fw \in DOMAIN report :
               /\ DOMAIN report[fw] = 1..Len(SCENARIOS)
               /\ \A i \in 1..Len(SCENARIOS) :
                      LET m == all_results["metassr"][i]
                          o == all_results[fw][i]
                          row == report[fw][i]
                      IN  /\ row.scenario = SCENARIOS[i].name
                          /\ PctIs(row.rps_d, m.rps, o.rps)
                          /\ PctIs(row.lat_d, m.latency_ms, o.latency_ms)
                          /\ PctIs(row.p99_d, m.p99_ms, o.p99_ms)

PctDiffInReportWitness ==
    /\ pc = "done" /\ exit_code = <<0>>
    /\ "nextjs" \in DOMAIN report
    /\ \E i \in 1..Len(SCENARIOS) :
           /\ RatEq(all_results["metassr"][i].rps, Rat(1000, 1))
           /\ RatEq(all_results["nextjs"][i].rps, Rat(800, 1))
           /\ RatEq(report["nextjs"][i].rps_d, Rat(25, 1))
           /\ RatEq(all_results["metassr"][i].p99_ms, Rat(5, 1))
           /\ RatEq(all_results["nextjs"][i].p99_ms, Rat(8, 1))
           /\ RatEq(report["nextjs"][i].p99_d, Rat(-375, 10))
           /\ all_results["nextjs"][i].latency_ms.n = 0
           /\ report["nextjs"][i].lat_d.n = 0

\* C6: the gate returns true at the first successful probe and issues no
\* more; it returns false after exactly T failed probes; it never issues
\* more than T probes, never raises, and has at most one probe in flight.
GateContract ==
    /\ gate_flight <= 1
    /\ gate_i <= gate_T
    /\ ~gate_raised
    /\ gate_ret = <<TRUE>> => /\ gate_fails = gate_i - 1
                              /\ gate_flight = 0
                              /\ gate_pc = "ret"
    /\ gate_ret = <<FALSE>> => /\ gate_fails = gate_T
                               /\ gate_i = gate_T
                               /\ gate_flight = 0
                               /\ gate_pc = "ret"
    /\ gate_pc = "ret" => ~ENABLED GateIssue

GateContractWitness ==
    /\ gate_T = ReadyTimeout
    /\ gate_ret = <<TRUE>>
    /\ gate_fails = 2 /\ gate_i = 3

\* C8: parse_wrk never raises, and a field whose line is absent holds its
\* zero value whatever the other lines hold.
ParseWrkNeverFails ==
    parsed # <<>> =>
        LET r == parsed[1]
        IN  /\ ~r.raised
            /\ fields.rps = <<>> => r.rps = Zero
            /\ fields.lat = <<>> => r.latency = ZeroMs /\ r.latency_ms = Zero
            /\ fields.p99 = <<>> => r.p99 = ZeroMs /\ r.p99_ms = Zero
            /\ fields.req = <<>> => r.requests = 0
            /\ fields.errs = <<>> => r.errors = 0

\* C9: the millisecond value of magnitude v with unit u is v/1000 for us,
\* v for ms, v*1000 for s and v for any other unit (units compared
\* case-insensitively); an empty or non-matching string gives 0.
LatencyScale(v, u) ==
    IF u = <<"u", "s">> THEN Rat(v.n, v.d * 1000)
    ELSE IF u = <<"s">> THEN Rat(v.n * 1000, v.d)
    ELSE v

WinnerByThroughput ==
    (pc = "done" /\ exit_code = <<0>>) =>
        \A fw \in DOMAIN report : \A i \in 1..Len(SCENARIOS) :
            LET m == all_results["metassr"][i]
                o == all_results[fw][i]
                row == report[fw][i]
            IN  /\ (o.rps.n * m.rps.d > m.rps.n * o.rps.d)
                       => row.winner = FRAMEWORKS[fw].name
                /\ (o.rps.n * m.rps.d <= m.rps.n * o.rps.d)
                       => row.winner = FRAMEWORKS["metassr"].name
                /\ (/\ RatEq(m.rps, Rat(1000, 1)) /\ RatEq(o.rps, Rat(800, 1))
                    /\ RatEq(m.p99_ms, Rat(5, 1)) /\ RatEq(o.p99_ms, Rat(8, 1)))
                       => /\ row.rps_cell = <<"+", "2", "5", ".", "0", "%">>
                          /\ row.p99_cell = <<"-", "3", "7", ".", "5", "%">>
                          /\ row.winner = FRAMEWORKS["metassr"].name

WinnerByThroughputWitness ==
    /\ pc = "done" /\ exit_code = <<0>>
    /\ "nextjs" \in DOMAIN report
    /\ \E i, j, k \in 1..Len(SCENARIOS) :
           /\ report["nextjs"][i].rps_cell = <<"+", "2", "5", ".", "0", "%">>
           /\ report["nextjs"][i].p99_cell = <<"-", "3", "7", ".", "5", "%">>
           /\ report["nextjs"][i].winner = "MetaSSR"
           /\ RatEq(all_results["metassr"][j].rps, all_results["nextjs"][j].rps)
           /\ report["nextjs"][j].winner = "MetaSSR"
           /\ all_results["metassr"][k].p99_ms.n = 5
    /\ FRAMEWORKS["metassr"].name # FRAMEWORKS["nextjs"].name

\* C12: a stop that fails or raises in the cleanup phase is not re-raised,
\* every other registered handle is still stopped, and the run still goes
\* on to the empty-result check and the report.
CleanupFailureContained ==
    pc = "done" =>
        \A k \in 1..Len(cleanup_failed) :
            LET f == cleanup_failed[k]
            IN  /\ exc = f.pending
                /\ cleanup_i > Len(containers) + Len(processes)
                /\ \A j \in 1..Len(containers) :
                       (\A l \in 1..Len(cleanup_failed) :
                            cleanup_failed[l].h # containers[j])
                           => cstate[containers[j]] = "absent"
                /\ f.pending = "none" =>
                       \/ exit_code = <<0>>
                       \/ DOMAIN all_results = {}

\* C13: against a target whose readiness gate returned true, wrk is invoked
\* once per scenario of SCENARIOS, in that order, one invocation at a time;
\* every invocation is recorded, an all-zero record included, none is
\* repeated, and the scenarios after it still run.
ScenariosOncePerTarget ==
    \A i \in 1..Len(frameworks) :
        /\ Len(invoked[i]) <= Len(SCENARIOS)
        /\ \A k \in 1..Len(invoked[i]) : invoked[i][k] = SCENARIOS[k].name
        /\ (pc = "bench" /\ idx = i) => Len(results) = Len(invoked[i])
        /\ (i \in ready /\ (pc = "done" \/ idx > i)) =>
               /\ Len(invoked[i]) = Len(SCENARIOS)
               /\ frameworks[i] \in DOMAIN all_results
               /\ Len(all_results[frameworks[i]]) = Len(invoked[i])

\* C14: no warm-up request and no wrk invocation is issued for a target
\* before its readiness gate returned true, and the warm-up, a fixed number
\* of requests between 5 and 10, is complete before the first scenario.
PhaseOrder ==
    /\ WarmupRequests \in 5..10 /\ ServerWarmupRequests \in 5..10
    /\ \A i \in 1..Len(frameworks) : invoked[i] # <<>> => i \in ready
    /\ pc \in {"warmup", "bench"} => idx \in ready
    /\ warm > 0 => ready # {}
    /\ pc = "warmup" => invoked[idx] = <<>>
    /\ pc = "bench" => warm = WarmupRequests
    /\ \A i \in 1..Len(frameworks) :
           (invoked[i] # <<>> /\ idx = i /\ pc # "done") => warm = WarmupRequests

PhaseOrderWitness ==
    /\ pc = "bench" /\ idx = 2 /\ 2 \in ready /\ 1 \notin ready
    /\ failed[1] = "ready"
    /\ warm = WarmupRequests
    /\ invoked[1] = <<>> /\ Len(invoked[2]) = 1

\* C15: docker_start removes the container named after the target before
\* it runs a new one, so a stale container never makes the run fail; it
\* returns the name exactly when the run command succeeded and no handle
\* otherwise; docker_stop removes the container of that name, present or
\* not; neither touches a container of another name.
ContainerStartStop ==
    /\ \A key \in Keys, outcome \in RunOutcomes :
           LET name == ContainerOf(key)
               r == docker_start(cstate, key, outcome)
           IN  /\ r.h = name <=> outcome \in {"running", "exited"}
               /\ r.h \in {name, None}
               /\ r.h = name => r.cs[name] \in {"running", "created"}
               /\ r.h = None => r.cs[name] # "running"
               /\ \A c \in ContainerNames \ {name} : r.cs[c] = cstate[c]
    /\ \A h \in ContainerNames :
           LET r == docker_stop(cstate, h)
           IN  /\ ~r.raised
               /\ r.cs[h] = "absent"
               /\ \A c \in ContainerNames \ {h} : r.cs[c] = cstate[c]
    /\ (last_op.op = "docker_start" /\ last_op.h # None) =>
           /\ last_op.h = ContainerOf(last_op.key)
           /\ cmine[last_op.h]
           /\ cstate[last_op.h] \in {"running", "created"}
    /\ (last_op.op = "docker_start" /\ last_op.h = None) =>
           cstate[ContainerOf(last_op.key)] # "running"
    /\ (last_op.op = "docker_stop" /\ last_op.h # None) =>
           cstate[last_op.h] = "absent"

ContainerStartStopWitness ==
    /\ last_op.op = "docker_start" /\ prev_op.op = "docker_start"
    /\ prev_op.key = last_op.key
    /\ prev_op.h # None /\ last_op.h = prev_op.h
    /\ cstate[last_op.h] = "running"
    /\ \E c \in ContainerNames \ {last_op.h} : cstate[c] = "absent"

\* C16: for each registered child process the cleanup sends terminate
\* first, waits at most GraceSeconds for it to exit, and sends kill only
\* when the process is still alive as the wait times out; a process that
\* exits within the grace period is never killed.
LocalStopProtocol ==
    /\ GraceSeconds = 5
    /\ \A p \in 1..Len(pstate) :
           /\ term_sent[p] <= 1
           /\ kill_sent[p] <= term_sent[p]
           /\ pc = "done" => term_sent[p] = 1 /\ pstate[p] = "exited"
    /\ pc \in {"cleanup_wait", "cleanup_kill"} =>
           term_sent[CleanupProc] = 1 /\ kill_sent[CleanupProc] = 0
    /\ pc = "cleanup_kill" => pstate[CleanupProc] = "running"
    /\ \A k \in 1..Len(waits) :
           LET w == waits[k]
               pending == pc = "cleanup_kill" /\ CleanupProc = w.p
           IN  /\ w.s <= GraceSeconds
               /\ term_sent[w.p] = 1
               /\ \A l \in 1..Len(waits) : waits[l].p = w.p => l = k
               /\ IF w.alive /\ w.delay >= GraceSeconds
                  THEN /\ w.s = GraceSeconds
                       /\ kill_sent[w.p] = IF pending THEN 0 ELSE 1
                  ELSE /\ kill_sent[w.p] = 0
                       /\ pstate[w.p] = "exited"
                       /\ w.s = IF w.alive THEN w.delay ELSE 0

LocalStopProtocolWitness ==
    /\ pc = "done" /\ Len(waits) = 2
    /\ waits[1].alive /\ waits[1].delay = GraceSeconds - 1
    /\ kill_sent[waits[1].p] = 0
    /\ waits[2].alive /\ waits[2].delay = GraceSeconds
    /\ kill_sent[waits[2].p] = 1
    /\ pstate = <<"exited", "exited">>

\* C17: a target whose server answers the first 2-second check is neither
\* built nor started and gets no handle, is still warmed up and run
\* through all of SCENARIOS with its results recorded, and its server is
\* not terminated by the cleanup; at the end of the run the handles the
\* cleanup stopped are exactly the handles this run registered.
OnlyStopsWhatItStarted ==
    /\ \A i \in found_running :
           /\ ~docker
           /\ \A p \in 1..Len(pstate) : pkey[p] # frameworks[i]
           /\ idx = i => pc \notin {"local_build", "local_start"}
           /\ ext[frameworks[i]]
           /\ (i \in ready /\ (pc = "done" \/ idx > i)) =>
                  /\ Len(invoked[i]) = Len(SCENARIOS)
                  /\ frameworks[i] \in DOMAIN all_results
    /\ Len(processes) = Len(pstate)
    /\ \A j \in 1..Len(processes) : processes[j] = j
    /\ \A p \in 1..Len(pstate) : term_sent[p] > 0 => pc \notin {"loop", "wait", "bench"}
    /\ pc = "done" =>
           /\ \A p \in 1..Len(pstate) : term_sent[p] = 1
           /\ \A j \in 1..Len(containers) :
                  /\ cleanup_i > j
                  /\ cstate[containers[j]] = "absent"

====
